---------------------------- MODULE Spec2Model ----------------------------
(***************************************************************************)
(* Model of markdown_astdocs: the %%%SOURCE line preprocessor              *)
(* (AstdocsSourcePreprocessor) and the %%%START / %%%END block processor   *)
(* (AstdocsStartEndBlockProcessor).                                        *)
(*                                                                         *)
(* Text is a sequence of tokens.  A token is one character class the       *)
(* regular expressions of the module tell apart, or one literal the code   *)
(* matches or emits as a whole:                                            *)
(*   "%%%SOURCE "  "%%%START "  "%%%END "   the marker literals            *)
(*   "A" "B"        uppercase letters ([A-Z])                              *)
(*   "0".."3"       decimal digits ([0-9])                                 *)
(*   ":"  "tick"  " "  "\n"   colon, backtick, space, newline              *)
(*   "a" "b" "c" "f" "g" "x"   other characters                            *)
(*   "<details><summary>source</summary>"  "python"  "</details>"          *)
(*                  the literals percent_source() emits                    *)
(***************************************************************************)
EXTENDS Integers, Sequences, FiniteSets, TLC

\* ------------------------------------------------------------------ bounds
MaxLines == 3
MaxFileLines == 3
MaxTicks == 4
MaxLineNo == 4
MaxBlocks == 4
MaxCalls == 2
MaxLiveBlocks == 2

\* ------------------------------------------------------------------- state
VARIABLES
    lines,      \* the line list run() works on, in place
    input,      \* the line list as it was handed to the first run()
    fs,         \* the files below the configured root path
    idx,        \* position of the for loop of run() (1-based)
    escaped,    \* the fence counter of run()
    spc,        \* "scan": in the loop, "done": returned, "error": raised
    pass,       \* 1: first run(), 2: run() on its own result
    out1,       \* the list the first run() returned
    reads,      \* number of files opened by the current run()
    stack,      \* the active parseBlocks() calls, the innermost last
    hpc         \* position of the innermost parseBlocks() loop

scanVars == <<lines, input, fs, idx, escaped, spc, pass, out1, reads>>

pairVars == <<stack, hpc>>

vars == <<lines, input, fs, idx, escaped, spc, pass, out1, reads, stack, hpc>>

\* ------------------------------------------------------- character classes
NL == "\n"
SP == " "
BT == "tick"
SRC == "%%%SOURCE "
START == "%%%START "
END == "%%%END "
DETAILS == "<details><summary>source</summary>"
PYTHON == "python"
DETAILSEND == "</details>"
\* lineno_end = None (no end line); every end line parsed from a marker is >= 0
None == -1

Digits == <<"0", "1", "2", "3", "4", "5", "6", "7", "8", "9">>

IsDigit(t) == \E k \in 1..Len(Digits) : Digits[k] = t

DigitVal(t) == (CHOOSE k \in 1..Len(Digits) : Digits[k] = t) - 1

IsUpper(t) == t \in {"A", "B"}

IsSpace(t) == t \in {SP, NL}

\* ------------------------------------------------------- string primitives
RECURSIVE Join(_)
Join(ss) == IF ss = <<>> THEN <<>> ELSE Head(ss) \o Join(Tail(ss))

Repeat(t, n) == [k \in 1..n |-> t]

Count(s, t) == Cardinality({k \in 1..Len(s) : s[k] = t})

StartsWith(s, pre) == Len(s) >= Len(pre) /\ SubSeq(s, 1, Len(pre)) = pre

OccursAt(s, p, sub) == p + Len(sub) - 1 <= Len(s) /\ SubSeq(s, p, p + Len(sub) - 1) = sub

Contains(s, sub) == \E p \in 1..(Len(s) + 1) : OccursAt(s, p, sub)

\* str.strip(): drop the leading and the trailing whitespace of the whole text
Strip(s) ==
    LET keep == {k \in 1..Len(s) : ~IsSpace(s[k])}
    IN  IF keep = {} THEN <<>>
        ELSE LET lo == CHOOSE k \in keep : \A j \in keep : k <= j
                 hi == CHOOSE k \in keep : \A j \in keep : k >= j
             IN  SubSeq(s, lo, hi)

\* int(): decimal value of a digit string
RECURSIVE ToInt(_)
ToInt(ds) ==
    IF ds = <<>> THEN 0
    ELSE 10 * ToInt(SubSeq(ds, 1, Len(ds) - 1)) + DigitVal(ds[Len(ds)])

\* last index of the maximal run of tokens satisfying the class, starting at p
\* (p - 1 when s[p] is not in the class)
RECURSIVE RunEnd(_, _, _)
RunEnd(s, p, cls) ==
    IF p <= Len(s) /\ s[p] \in cls THEN RunEnd(s, p + 1, cls) ELSE p - 1

DigitSet == {Digits[k] : k \in 1..Len(Digits)}

\* last index of the line that position p lies on (the newline excluded):
\* how far .* can reach from p
RECURSIVE LineEnd(_, _)
LineEnd(s, p) ==
    IF p <= Len(s) /\ s[p] # NL THEN LineEnd(s, p + 1) ELSE p - 1

\* list[start:stop] with the Python index normalisation (stop = None: to the end)
PySlice(l, start, stop) ==
    LET n == Len(l)
        norm(v) == IF v < 0 THEN (IF v + n < 0 THEN 0 ELSE v + n)
                   ELSE (IF v > n THEN n ELSE v)
        lo == norm(start)
        hi == IF stop = None THEN n ELSE norm(stop)
    IN  SubSeq(l, lo + 1, hi)

\* re.findall of backtick runs in src: the maximal runs of backticks, by their lengths
RECURSIVE TickRuns(_, _)
TickRuns(s, p) ==
    IF p > Len(s) THEN <<>>
    ELSE IF s[p] = BT
         THEN LET e == RunEnd(s, p, {BT})
              IN  <<e - p + 1>> \o TickRuns(s, e + 1)
         ELSE TickRuns(s, p + 1)

\* sorted(..., key=len)[-1]: the length of the longest run
RECURSIVE MaxOf(_)
MaxOf(ns) ==
    IF ns = <<>> THEN 0
    ELSE LET m == MaxOf(Tail(ns)) IN IF Head(ns) > m THEN Head(ns) ELSE m

\* ---------------------------------------------------------- percent_source
\* the fence chosen for an excerpt
FenceWidthNoPlus(src) ==
    IF Contains(src, <<BT, BT, BT>>) THEN MaxOf(TickRuns(src, 1)) ELSE 3

FenceWidth(src) ==
    IF Contains(src, <<BT, BT, BT>>) THEN MaxOf(TickRuns(src, 1)) + 1 ELSE 3

\* "".join(f.readlines()[lineno - 1 : lineno_end]).strip()
ExcerptFromLineno(file, lineno, lineno_end) ==
    Strip(Join(PySlice(file, lineno, lineno_end)))

Excerpt(file, lineno, lineno_end) ==
    Strip(Join(PySlice(file, lineno - 1, lineno_end)))

\* the returned replacement text
Rendered(src, w) ==
    <<DETAILS, NL, NL>> \o Repeat(BT, w) \o <<PYTHON, NL>> \o src
        \o <<NL>> \o Repeat(BT, w) \o <<NL, NL, DETAILSEND>>

percent_source(file, lineno, lineno_end) ==
    LET src == Excerpt(file, lineno, lineno_end)
    IN  Rendered(src, FenceWidth(src))

\* --------------------------------------------------------------- SOURCE_RE
NoMatch == [found |-> FALSE, start |-> 0, stop |-> 0, path |-> <<>>, a |-> 0, b |-> 0]

\* the match of r"%%%SOURCE (.*):([0-9]+):([0-9]+)" starting at position p:
\* the greedy (.*) ends at the last colon of the line that is followed by
\* digits, a colon and digits
SourceMatchAt(s, p) ==
    IF p > Len(s) \/ s[p] # SRC THEN NoMatch
    ELSE LET e == LineEnd(s, p + 1)
             tail(q) == LET r == RunEnd(s, q + 1, DigitSet) + 1
                        IN  /\ r > q + 1
                            /\ r <= Len(s)
                            /\ s[r] = ":"
                            /\ RunEnd(s, r + 1, DigitSet) > r
             cands == {q \in (p + 1)..e : s[q] = ":" /\ tail(q)}
         IN  IF cands = {} THEN NoMatch
             ELSE LET q == CHOOSE c \in cands : \A d \in cands : c >= d
                      r == RunEnd(s, q + 1, DigitSet) + 1
                      z == RunEnd(s, r + 1, DigitSet)
                  IN  [found |-> TRUE, start |-> p, stop |-> z,
                       path |-> SubSeq(s, p + 1, q - 1),
                       a |-> ToInt(SubSeq(s, q + 1, r - 1)),
                       b |-> ToInt(SubSeq(s, r + 1, z))]

\* re.finditer(SOURCE_RE, line): the non-overlapping matches, left to right
RECURSIVE FindIter(_, _)
FindIter(s, pos) ==
    IF pos > Len(s) THEN <<>>
    ELSE LET m == SourceMatchAt(s, pos)
         IN  IF m.found THEN <<m>> \o FindIter(s, m.stop + 1)
             ELSE FindIter(s, pos + 1)

\* str.replace(old, new): every non-overlapping occurrence, left to right
RECURSIVE Replace(_, _, _)
Replace(s, old, new) ==
    IF s = <<>> THEN <<>>
    ELSE IF OccursAt(s, 1, old)
         THEN new \o Replace(SubSeq(s, Len(old) + 1, Len(s)), old, new)
         ELSE <<Head(s)>> \o Replace(Tail(s), old, new)

\* -------------------------------------------------------------- file system
Missing == [ok |-> FALSE, lines |-> <<>>]

File(ls) == [ok |-> TRUE, lines |-> ls]

\* an open() that yields an empty file where none exists
LookupEmptyOnMissing(files, path) ==
    LET file == IF path = <<"f">> THEN files.f
                ELSE IF path = <<"g">> THEN files.g
                ELSE files.other
    IN  IF file.ok THEN file ELSE File(<<>>)

\* pathlib.Path(f"{self.path}/{m.group(1)}").open()
Lookup(files, path) ==
    IF path = <<"f">> THEN files.f
    ELSE IF path = <<"g">> THEN files.g
    ELSE files.other

\* ------------------------------------------------- AstdocsSourcePreprocessor
\* the body of "for m in re.finditer(SOURCE_RE, line)": every match replaces
\* its text in the line as it was read and stores the result in lines[i];
\* a file that cannot be opened raises out of the loop
RECURSIVE SubstFrom(_, _, _, _, _)
SubstFrom(files, line, ms, cur, n) ==
    IF ms = <<>> THEN [ok |-> TRUE, text |-> cur, reads |-> n]
    ELSE LET m == Head(ms)
             file == Lookup(files, m.path)
         IN  IF ~file.ok THEN [ok |-> FALSE, text |-> cur, reads |-> n + 1]
             ELSE SubstFrom(files, line, Tail(ms),
                            Replace(line, SubSeq(line, m.start, m.stop),
                                    percent_source(file.lines, m.a, m.b)),
                            n + 1)

Substitute(files, line) == SubstFrom(files, line, FindIter(line, 1), line, 0)

\* a counter that every line without leading backticks clears
FenceOpenResets(line, esc) ==
    IF StartsWith(line, <<BT, BT, BT>>) THEN Count(line, BT) ELSE 0

\* if line.startswith(three backticks): escaped = line.count(backtick)
FenceOpen(line, esc) ==
    IF StartsWith(line, <<BT, BT, BT>>) THEN Count(line, BT) ELSE esc

\* if escaped and line == escaped * backtick: escaped = 0
FenceClose(line, esc) ==
    IF esc # 0 /\ line = Repeat(BT, esc) THEN 0 ELSE esc

\* one iteration of the for loop of run()
ScanLine ==
    /\ spc = "scan"
    /\ idx <= Len(lines)
    /\ LET line == lines[idx]
           esc == FenceClose(line, FenceOpen(line, escaped))
           res == IF esc = 0 THEN Substitute(fs, line)
                  ELSE [ok |-> TRUE, text |-> line, reads |-> 0]
       IN  /\ escaped' = esc
           /\ lines' = [lines EXCEPT ![idx] = res.text]
           /\ reads' = reads + res.reads
           /\ IF res.ok THEN idx' = idx + 1 /\ spc' = spc
                        ELSE idx' = idx /\ spc' = "error"
    /\ UNCHANGED <<input, fs, pass, out1>>
    /\ UNCHANGED pairVars

\* return lines
ScanReturn ==
    /\ spc = "scan"
    /\ idx > Len(lines)
    /\ spc' = "done"
    /\ out1' = IF pass = 1 THEN lines ELSE out1
    /\ UNCHANGED <<lines, input, fs, idx, escaped, pass, reads>>
    /\ UNCHANGED pairVars

\* run() is called again on the list it returned
ScanAgain ==
    /\ spc = "done"
    /\ pass = 1
    /\ pass' = 2
    /\ spc' = "scan"
    /\ idx' = 1
    /\ escaped' = 0
    /\ reads' = 0
    /\ UNCHANGED <<lines, input, fs, out1>>
    /\ UNCHANGED pairVars

ScanNext == ScanLine \/ ScanReturn \/ ScanAgain

\* ------------------------------------------------------------------ inputs
\* decimal digits of a line number
Num(n) == IF n < 10 THEN <<Digits[n + 1]>> ELSE <<Digits[(n \div 10) + 1], Digits[(n % 10) + 1]>>

Marker(path, a, b) == <<SRC>> \o path \o <<":">> \o Num(a) \o <<":">> \o Num(b)

TwoMarkers == Marker(<<"f">>, 1, 1) \o <<SP>> \o Marker(<<"g">>, 2, 2)

LinePool ==
    { <<"x">>,
      Repeat(BT, 3),
      Repeat(BT, 4),
      Repeat(BT, 3) \o <<PYTHON>>,
      Marker(<<"f">>, 1, 2),
      <<"x", SP>> \o Marker(<<"g">>, 1, 1) \o <<SP, "x">>,
      TwoMarkers,
      <<SRC, "f", ":", "1">> }

SeqsUpTo(S, n) == UNION {[1..k -> S] : k \in 0..n}

Documents == SeqsUpTo(LinePool, MaxLines) \ {<<>>}

FsPool ==
    [ f : {File(<<<<"a", NL>>, <<"b", NL>>, <<"c", NL>>>>),
           File(<<Marker(<<"g">>, 1, 1) \o <<NL>>, <<"b", NL>>>>)},
      g : {File(<<<<"a", NL>>, <<SP, "b", NL>>>>), Missing},
      other : {Missing, File(<<<<"c", NL>>>>)} ]

ScanStart(doc, files) ==
    /\ lines = doc
    /\ input = doc
    /\ fs = files
    /\ idx = 1
    /\ escaped = 0
    /\ spc = "scan"
    /\ pass = 1
    /\ out1 = <<>>
    /\ reads = 0
    /\ stack = <<>>
    /\ hpc = "idle"

ScanInit == \E doc \in Documents, files \in FsPool : ScanStart(doc, files)

SpecScan == ScanInit /\ [][ScanNext]_vars

\* one marker on its own line, over every small file and every line range
FileLinePool ==
    { <<"a", NL>>, <<SP, "b", NL>>, <<"c", SP, NL>>, <<NL>> }
        \cup { Repeat(BT, k) \o <<NL>> : k \in 2..MaxTicks }

FilePool == SeqsUpTo(FileLinePool, MaxFileLines)

ExcerptInit ==
    \E ls \in FilePool, a \in 0..MaxLineNo, b \in 0..MaxLineNo :
        ScanStart(<<Marker(<<"f">>, a, b)>>,
                  [f |-> File(ls), g |-> Missing, other |-> Missing])

SpecExcerpt == ExcerptInit /\ [][ScanNext]_vars

\* ------------------------------------------------------- START_RE / END_RE
\* last position of the match of r"%%%START ([A-Z]+) (.*)" (lit = START) or
\* r"%%%END ([A-Z]+) (.*)" (lit = END) starting at position p; 0: no match
MarkerMatchAt(s, p, lit) ==
    IF p > Len(s) \/ s[p] # lit THEN 0
    ELSE LET u == RunEnd(s, p + 1, {"A", "B"})
         IN  IF u > p /\ u + 1 <= Len(s) /\ s[u + 1] = SP
             THEN LineEnd(s, u + 2)
             ELSE 0

\* re.search(RE, s) is not None
Search(s, lit) == \E p \in 1..Len(s) : MarkerMatchAt(s, p, lit) > 0

\* re.sub(RE, "", s): the text without the non-overlapping matches
RECURSIVE ReSub(_, _)
ReSub(s, lit) ==
    IF s = <<>> THEN <<>>
    ELSE LET z == MarkerMatchAt(s, 1, lit)
         IN  IF z > 0 THEN ReSub(SubSeq(s, z + 1, Len(s)), lit)
             ELSE <<Head(s)>> \o ReSub(Tail(s), lit)

\* -------------------------------------------- AstdocsStartEndBlockProcessor
\* test(): re.match(START_RE, block) is not None
TestSearch(block) == Search(block, START)

Test(block) == MarkerMatchAt(block, 1, START) > 0

\* the for loop of run(): the first block with an END marker (0: none)
FirstEnd(blocks) ==
    LET hits == {k \in 1..Len(blocks) : Search(blocks[k], END)}
    IN  IF hits = {} THEN 0 ELSE CHOOSE k \in hits : \A j \in hits : k <= j

\* "for _ in range(0, i + 1): blocks.pop(0)", i counted from 0: the number of
\* blocks removed when the block at (1-based) position k holds the END marker
PopCountShort(k) == k - 1

PopCount(k) == k

\* blocks[0] = block
RestoreSkipped(block, blocks) == blocks

Restore(block, blocks) == [blocks EXCEPT ![1] = block]

\* what run() returns (line 231: a bare return, line 233: the end of the body)
RunReturn(found) == "None"

\* one parseBlocks() call: its queue, the children appended to its parent,
\* and the run() call made from it
Frame(q) ==
    [ q |-> q,            \* the pending blocks
      kids |-> <<>>,      \* children appended to the parent element
      ran |-> "none",     \* run() of this frame: none, calling, paired, declined
      pre |-> <<>>,       \* the queue when run() was entered
      preKids |-> <<>>,   \* the children when run() was entered
      handed |-> <<>>,    \* the blocks run() passed to parseBlocks()
      pending |-> 0,      \* blocks run() removes once parseBlocks() returns
      calls |-> 0 ]       \* run() calls without a change of the queue

Top == stack[Len(stack)]

SetTop(fr) == [stack EXCEPT ![Len(stack)] = fr]

Saturate(n) == IF n < MaxCalls THEN n + 1 ELSE MaxCalls

\* parseBlocks(): "while blocks: for processor in ...: if processor.test(...)"
HostTest ==
    /\ hpc = "loop"
    /\ Top.q # <<>>
    /\ hpc' = IF Test(Top.q[1]) THEN "pairer" ELSE "other"
    /\ stack' = SetTop([Top EXCEPT !.ran = "none"])
    /\ UNCHANGED scanVars

\* run(parent, blocks), up to its call of self.parser.parseBlocks() or, when
\* no END marker is found, to its end
Run ==
    /\ hpc = "pairer"
    /\ \E blocks \in {Top.q} :
       \E b1 \in {[blocks EXCEPT ![1] = ReSub(blocks[1], START)]} :
       \E k \in {FirstEnd(b1)} :
          IF k > 0
          THEN \E b2 \in {[b1 EXCEPT ![k] = ReSub(b1[k], END)]} :
                  /\ stack' = Append(SetTop([Top EXCEPT
                                                !.q = b2,
                                                !.kids = Append(Top.kids, "div"),
                                                !.ran = "calling",
                                                !.pre = blocks,
                                                !.preKids = Top.kids,
                                                !.handed = SubSeq(b2, 1, k),
                                                !.pending = PopCount(k),
                                                !.calls = 1]),
                                    Frame(SubSeq(b2, 1, k)))
                  /\ hpc' = "loop"
          ELSE /\ stack' = SetTop([Top EXCEPT !.q = Restore(blocks[1], b1),
                                              !.ran = "declined",
                                              !.pre = blocks,
                                              !.preKids = Top.kids,
                                              !.handed = <<>>,
                                              !.calls = Saturate(Top.calls)])
               /\ hpc' = IF RunReturn(FALSE) = "False" THEN "other" ELSE "loop"
    /\ UNCHANGED scanVars

\* another block processor of the host handles the head block (taken here
\* to consume exactly that block)
HostOther ==
    /\ hpc = "other"
    /\ stack' = SetTop([Top EXCEPT !.q = Tail(Top.q),
                                   !.kids = Append(Top.kids, "p"),
                                   !.calls = 0])
    /\ hpc' = "loop"
    /\ UNCHANGED scanVars

\* the inner parseBlocks() returns into run(), which pops the consumed blocks
\* and returns to the loop of the outer parseBlocks()
HostReturn ==
    /\ hpc = "loop"
    /\ Top.q = <<>>
    /\ Len(stack) > 1
    /\ LET caller == stack[Len(stack) - 1]
           back == [caller EXCEPT
                       !.q = SubSeq(caller.q, caller.pending + 1, Len(caller.q)),
                       !.pending = 0,
                       !.ran = "paired",
                       !.calls = 0]
       IN  stack' = [SubSeq(stack, 1, Len(stack) - 1) EXCEPT ![Len(stack) - 1] = back]
    /\ hpc' = IF RunReturn(TRUE) = "False" THEN "other" ELSE "loop"
    /\ UNCHANGED scanVars

\* the outermost parseBlocks() returns: the document is rendered
HostDone ==
    /\ hpc = "loop"
    /\ Top.q = <<>>
    /\ Len(stack) = 1
    /\ hpc' = "done"
    /\ UNCHANGED <<stack, scanVars>>

PairNext == HostTest \/ Run \/ HostOther \/ HostReturn \/ HostDone

BlockPool ==
    { <<"x">>,
      <<START, "A", SP, "x", NL, "x">>,
      <<START, "B", SP, "x">>,
      <<END, "A", SP, "x">>,
      <<"x", NL, END, "B", SP, "x">>,
      <<START, "A", SP, "x", NL, "x", NL, END, "A", SP, "x">>,
      <<START, "A", SP, "x", SP, END, "A", SP, "x">>,
      <<NL, START, "A", SP, "x">>,
      <<"x", SP, START, "A", SP, "x">> }

Queues == SeqsUpTo(BlockPool, MaxBlocks)

PairStart(q) ==
    /\ stack = <<Frame(q)>>
    /\ hpc = "loop"
    /\ lines = <<>>
    /\ input = <<>>
    /\ fs = [f |-> Missing, g |-> Missing, other |-> Missing]
    /\ idx = 1
    /\ escaped = 0
    /\ spc = "idle"
    /\ pass = 1
    /\ out1 = <<>>
    /\ reads = 0

PairInit == \E q \in Queues : PairStart(q)

SpecPair == PairInit /\ [][PairNext]_vars

\* the documents of at most MaxLiveBlocks blocks, rendered by a host that
\* keeps running its loop while a step is possible
LiveInit == \E q \in SeqsUpTo(BlockPool, MaxLiveBlocks) : PairStart(q)

SpecPairFair == LiveInit /\ [][PairNext]_vars /\ WF_vars(PairNext)

\* the queues [S1, S2, E2, E1] of two nested pairs of different kinds
StartBlock(kind) ==
    IF kind = "A" THEN <<START, "A", SP, "x", NL, "x">> ELSE <<START, "B", SP, "x">>

EndBlock(kind) ==
    IF kind = "A" THEN <<END, "A", SP, "x">> ELSE <<"x", NL, END, "B", SP, "x">>

Nested(k1, k2) == <<StartBlock(k1), StartBlock(k2), EndBlock(k2), EndBlock(k1)>>

NestedQueues == {Nested("A", "B"), Nested("B", "A")}

NestedInit == \E q \in SeqsUpTo(BlockPool, MaxLiveBlocks) \cup NestedQueues : PairStart(q)

SpecPairNested == NestedInit /\ [][PairNext]_vars /\ WF_vars(PairNext)

\* ================================================================== claims
\* ---- vocabulary of the claims about the Marker Scanner
\* the fence state the specification describes, after line i of doc: a line
\* starting with three or more backticks opens a fence of the width of its
\* leading run; a line made of exactly that many backticks closes it
RECURSIVE SpecFenceAfter(_, _)
SpecFenceAfter(doc, i) ==
    IF i = 0 THEN 0
    ELSE LET st == SpecFenceAfter(doc, i - 1)
             line == doc[i]
         IN  IF st = 0
             THEN (IF StartsWith(line, <<BT, BT, BT>>) THEN RunEnd(line, 1, {BT}) ELSE 0)
             ELSE (IF line = Repeat(BT, st) THEN 0 ELSE st)

\* line i lies strictly between a fence-open line and its matching close
StrictlyInside(doc, i) ==
    /\ SpecFenceAfter(doc, i - 1) > 0
    /\ SpecFenceAfter(doc, i) > 0
    /\ \E j \in (i + 1)..Len(doc) : SpecFenceAfter(doc, j) = 0

\* line i of the input has been through the loop body of the first run()
Reached(i) ==
    /\ pass = 1
    /\ \/ idx > i
       \/ spc = "done"
       \/ spc = "error" /\ idx = i

\* the parts of a rendered excerpt block that starts the text out
BlockOpenWidth(out) == RunEnd(out, 4, {BT}) - 3

RECURSIVE RunStart(_, _, _)
RunStart(s, p, cls) ==
    IF p >= 1 /\ s[p] \in cls THEN RunStart(s, p - 1, cls) ELSE p + 1

BlockCloseWidth(out) == (Len(out) - 3) - RunStart(out, Len(out) - 3, {BT}) + 1

BlockContent(out) ==
    SubSeq(out, 3 + BlockOpenWidth(out) + 3, Len(out) - 3 - BlockCloseWidth(out) - 1)

IsBlock(out) ==
    /\ Len(out) >= 12
    /\ SubSeq(out, 1, 3) = <<DETAILS, NL, NL>>
    /\ SubSeq(out, Len(out) - 2, Len(out)) = <<NL, NL, DETAILSEND>>
    /\ LET w == BlockOpenWidth(out)
           c == BlockCloseWidth(out)
       IN  /\ 3 + w + 2 <= Len(out) - 3 - c
           /\ out[3 + w + 1] = PYTHON
           /\ out[3 + w + 2] = NL
           /\ out[Len(out) - 3 - c] = NL

\* the longest run of backticks in a text, counted position by position
LongestTickRun(s) ==
    LET ns == {n \in 0..Len(s) : Contains(s, Repeat(BT, n))}
    IN  CHOOSE n \in ns : \A m \in ns : n >= m

\* the marker of the single-marker documents, read back from the input line
MarkerA == ToInt(<<input[1][4]>>)

MarkerB == ToInt(<<input[1][6]>>)

OneMarkerDone ==
    /\ pass = 1
    /\ spc = "done"
    /\ Len(input) = 1
    /\ Len(input[1]) = 6
    /\ input[1][1] = SRC
    /\ input[1][2] = "f"
    /\ fs.f.ok

\* C1: every line strictly between a fence-open line (three or more
\* backticks, whatever follows) and its matching fence-close line is emitted
\* unchanged by run(), also when it holds a SOURCE marker.
C1_FencedLinesUnchanged ==
    pass = 1 =>
        \A i \in 1..Len(input) : StrictlyInside(input, i) => lines[i] = input[i]

\* C5: run() returns a list of the same length, in which every line without
\* a SOURCE match and every line inside a fenced code block is the input line.
C5_FrameCondition ==
    pass = 1 =>
        /\ Len(lines) = Len(input)
        /\ \A i \in 1..Len(input) :
              (FindIter(input[i], 1) = <<>> \/ StrictlyInside(input, i))
                  => lines[i] = input[i]

\* C6: run() applied to its own result returns it unchanged, without any
\* substitution and without opening a file, whatever the excerpts contain.
C6_SecondScanIsNoOp ==
    pass = 2 => (spc # "error" /\ lines = out1 /\ reads = 0)

\* C8: the opening and the closing fence of an emitted block have the same
\* width w, w >= 3, and w exceeds the longest backtick run of the excerpt.
C8_FenceWidthSafe ==
    OneMarkerDone =>
        /\ IsBlock(lines[1])
        /\ BlockOpenWidth(lines[1]) = BlockCloseWidth(lines[1])
        /\ BlockOpenWidth(lines[1]) >= 3
        /\ BlockOpenWidth(lines[1]) >= LongestTickRun(BlockContent(lines[1])) + 1

\* an excerpt holding a run of four backticks was wrapped in a fence of five
C8_Witness ==
    /\ OneMarkerDone
    /\ LongestTickRun(BlockContent(lines[1])) = 4
    /\ BlockOpenWidth(lines[1]) = 5

\* ---- vocabulary of C9
InRange == 1 <= MarkerA /\ MarkerA <= MarkerB /\ MarkerB <= Len(fs.f.lines)

IsBlank(l) == \A k \in 1..Len(l) : IsSpace(l[k])

\* lines a..b without the blank lines at either end and without the last
\* line terminator
ExactLines(file, a, b) ==
    LET keep == {k \in a..b : ~IsBlank(file[k])}
    IN  IF keep = {} THEN <<>>
        ELSE LET lo == CHOOSE k \in keep : \A j \in keep : k <= j
                 hi == CHOOSE k \in keep : \A j \in keep : k >= j
                 t == Join(SubSeq(file, lo, hi))
             IN  IF t[Len(t)] = NL THEN SubSeq(t, 1, Len(t) - 1) ELSE t

\* c is the text t without the whitespace at its two ends
IsTrimOf(c, t) ==
    IF c = <<>> THEN IsBlank(t)
    ELSE /\ ~IsSpace(c[1])
         /\ ~IsSpace(c[Len(c)])
         /\ \E p \in 1..Len(t) :
               /\ OccursAt(t, p, c)
               /\ \A k \in 1..(p - 1) : IsSpace(t[k])
               /\ \A k \in (p + Len(c))..Len(t) : IsSpace(t[k])

\* C9 (as claimed): for a marker f:a:b with 1 <= a <= b <= N the fenced
\* content is exactly lines a..b of f, without leading or trailing blank lines.
C9_ExactLines ==
    (OneMarkerDone /\ InRange) =>
        BlockContent(lines[1]) = ExactLines(fs.f.lines, MarkerA, MarkerB)

\* C9 (amended): the fenced content is lines a..b of f, concatenated in
\* order, without the whitespace at the start and at the end of that text.
C9_TrimmedLines ==
    (OneMarkerDone /\ InRange) =>
        /\ IsBlock(lines[1])
        /\ IsTrimOf(BlockContent(lines[1]),
                    Join(SubSeq(fs.f.lines, MarkerA, MarkerB)))

\* lines 2..3 of a three-line file were inlined and line 2 lost its indentation
C9_Witness ==
    /\ OneMarkerDone
    /\ MarkerA = 2
    /\ MarkerB = 3
    /\ Len(fs.f.lines) = 3
    /\ fs.f.lines[2] = <<SP, "b", NL>>
    /\ fs.f.lines[3] = <<"a", NL>>
    /\ BlockContent(lines[1]) = <<"b", NL, "a">>

\* ---- vocabulary of C7
\* a SOURCE marker as the specification writes it: the literal, a path of
\* non-colon characters, a colon, digits, a colon, digits
SpecMarkerAt(s, p) ==
    IF p > Len(s) \/ s[p] # SRC THEN NoMatch
    ELSE LET q == RunEnd(s, p + 1, {"a", "b", "c", "f", "g", "x", "A", "B"}) + 1
             r == RunEnd(s, q + 1, DigitSet) + 1
             z == RunEnd(s, r + 1, DigitSet)
         IN  IF /\ q <= Len(s) /\ s[q] = ":"
                /\ r > q + 1 /\ r <= Len(s) /\ s[r] = ":"
                /\ z > r
             THEN [found |-> TRUE, start |-> p, stop |-> z,
                   path |-> SubSeq(s, p + 1, q - 1),
                   a |-> ToInt(SubSeq(s, q + 1, r - 1)),
                   b |-> ToInt(SubSeq(s, r + 1, z))]
             ELSE NoMatch

SpecMarkers(s) == {p \in 1..Len(s) : SpecMarkerAt(s, p).found}

\* the line with every marker replaced by the excerpt of its own path and range
RECURSIVE SpecRender(_, _, _)
SpecRender(files, s, pos) ==
    IF pos > Len(s) THEN <<>>
    ELSE LET m == SpecMarkerAt(s, pos)
         IN  IF m.found
             THEN percent_source(Lookup(files, m.path).lines, m.a, m.b)
                      \o SpecRender(files, s, m.stop + 1)
             ELSE <<s[pos]>> \o SpecRender(files, s, pos + 1)

\* C7: an unfenced line with two or more SOURCE markers comes out with each
\* marker replaced by the excerpt of its own path and line range, and with no
\* marker text of the input left.
C7_EachMarkerReplaced ==
    \A i \in 1..Len(input) :
        ( /\ Reached(i)
          /\ Cardinality(SpecMarkers(input[i])) >= 2
          /\ SpecFenceAfter(input, i - 1) = 0
          /\ \A p \in SpecMarkers(input[i]) :
                Lookup(fs, SpecMarkerAt(input[i], p).path).ok )
            => /\ spc # "error"
               /\ lines[i] = SpecRender(fs, input[i], 1)
               /\ ~Contains(lines[i], <<SRC>>)

\* ---- vocabulary of the claims about the Block Pairer
\* the frames in which run() has been called since the last test()
RanFrames == {n \in 1..Len(stack) : stack[n].ran # "none"}

\* least position of a block with an END marker (0: none)
LeastEnd(q) ==
    IF \A n \in 1..Len(q) : ~Search(q[n], END) THEN 0
    ELSE CHOOSE n \in 1..Len(q) :
            Search(q[n], END) /\ \A j \in 1..(n - 1) : ~Search(q[j], END)

\* the queue with the START marker text taken out of its head block
HeadStripped(q) == [q EXCEPT ![1] = ReSub(q[1], START)]

\* the effect C2 describes, for a run() entered with queue fr.pre whose span
\* ends at position k: one container, blocks 1..k handed over with the two
\* markers removed, k blocks removed from the front of the queue
PairedAsDescribed(fr, k) ==
    /\ fr.ran # "declined"
    /\ fr.kids = Append(fr.preKids, "div")
    /\ Len(fr.handed) = k
    /\ fr.handed[1] = (IF k = 1 THEN ReSub(ReSub(fr.pre[1], START), END)
                       ELSE ReSub(fr.pre[1], START))
    /\ ~Search(fr.handed[k], END)
    /\ k > 1 => fr.handed[k] = ReSub(fr.pre[k], END)
    /\ \A n \in 2..(k - 1) : fr.handed[n] = fr.pre[n]
    /\ ~Search(fr.handed[1], START)
    /\ fr.ran = "calling" =>
          /\ fr.pending = k
          /\ SubSeq(fr.q, k + 1, Len(fr.q)) = SubSeq(fr.pre, k + 1, Len(fr.pre))
    /\ fr.ran = "paired" => fr.q = SubSeq(fr.pre, k + 1, Len(fr.pre))

C3_DeclineLeavesState ==
    \A n \in RanFrames :
        LeastEnd(stack[n].pre) = 0 =>
            /\ stack[n].ran = "declined"
            /\ n = Len(stack)
            /\ stack[n].q = stack[n].pre
            /\ stack[n].kids = stack[n].preKids
            /\ stack[n].pending = 0

\* run() has declined twice in a row on [S, B1], whose head differs from
\* its stripped form
C3_Witness ==
    /\ hpc = "loop"
    /\ Top.ran = "declined"
    /\ Top.calls >= 2
    /\ Top.q = << <<START, "A", SP, "x", NL, "x">>, <<"x">> >>
    /\ Top.kids = <<>>

\* ---- vocabulary of C4
\* the document starts with a START block and holds no END marker
Unterminated(q) == q # <<>> /\ Test(q[1]) /\ LeastEnd(q) = 0

\* C4: a document whose head block opens with START and that holds no END
\* marker is rendered to the end: run() declines and the host loop terminates.
C4_UnterminatedStartTerminates ==
    Unterminated(stack[1].q) => <>(hpc = "done")

\* ---- vocabulary of C10
\* the block begins with the START pattern once leading whitespace is skipped
EligibleAfterWhitespace(block) ==
    MarkerMatchAt(block, RunEnd(block, 1, {SP, NL}) + 1, START) > 0

\* the block begins with the START pattern at its first character: the
\* literal, one or more uppercase letters, a space
BeginsWithStart(block) ==
    /\ Len(block) >= 3
    /\ block[1] = START
    /\ \E u \in 2..(Len(block) - 1) :
          /\ \A j \in 2..u : IsUpper(block[j])
          /\ block[u + 1] = SP

\* C10 (as claimed): test() accepts a block exactly when the block, after its
\* leading whitespace, begins with the START pattern.
C10_EligibleAfterWhitespace ==
    hpc \in {"pairer", "other"} =>
        ((hpc = "pairer") <=> EligibleAfterWhitespace(Top.q[1]))

\* C10 (amended): test() accepts a block exactly when the block begins with
\* the START pattern at its very first character; whitespace before the
\* marker makes the block ineligible, as other text before it does.
C10_EligibleAtFirstCharacter ==
    hpc \in {"pairer", "other"} =>
        ((hpc = "pairer") <=> BeginsWithStart(Top.q[1]))

\* test() has refused a block whose START marker follows a newline
C10_Witness ==
    /\ hpc = "other"
    /\ Top.q[1] = <<NL, START, "A", SP, "x">>

\* ---- vocabulary of the claim about missing files
\* line i of the input is outside every fence and opens none
UnfencedAt(i) ==
    /\ SpecFenceAfter(input, i - 1) = 0
    /\ SpecFenceAfter(input, i) = 0

\* the file system holds a file under the path a SOURCE match names
Exists(path) ==
    \/ path = <<"f">> /\ fs.f.ok
    \/ path = <<"g">> /\ fs.g.ok
    \/ path \notin {<<"f">>, <<"g">>} /\ fs.other.ok

\* the SOURCE matches of line i of the input whose file cannot be opened
MissingMatches(i) ==
    LET ms == FindIter(input[i], 1)
    IN  {k \in 1..Len(ms) : ~Exists(ms[k].path)}

\* the block percent_source() would build from a file without content
EmptyBlockOf(i, k) ==
    LET m == FindIter(input[i], 1)[k]
    IN  percent_source(<<>>, m.a, m.b)

C12_FreshOpenStaysOpen ==
    [][ (spc = "scan" /\ idx <= Len(lines)) =>
            /\ (escaped = 0 /\ StartsWith(lines[idx], <<BT, BT, BT>>))
                  => escaped' # 0
            /\ (escaped # 0 /\ escaped' = 0)
                  => lines[idx] = Repeat(BT, escaped) ]_vars

\* ---- vocabulary of C13
\* run() has returned from a queue [S1, S2, E2, E1]: one container around
\* [S1, S2, E2] with S1's START and E2's END text removed, S2 handed over with
\* its START marker and no END marker left in the handed blocks, and E1, END
\* text included, at the head of the pending queue
NestedPaired ==
    /\ Len(stack) = 1
    /\ LET fr == stack[1]
       IN  /\ fr.ran = "paired"
           /\ fr.pre \in NestedQueues
           /\ fr.kids = <<"div">>
           /\ fr.handed = <<ReSub(fr.pre[1], START), fr.pre[2], ReSub(fr.pre[3], END)>>
           /\ Test(fr.handed[2])
           /\ \A n \in 1..3 : ~Search(fr.handed[n], END)
           /\ fr.q = <<fr.pre[4]>>
           /\ Search(fr.q[1], END)

\* C13: for a pending queue [S1, S2, E2, E1], run() on the head wraps exactly
\* [S1, S2, E2], hands S2 over with its START marker and without any END
\* marker, and leaves E1 as the new head of the pending queue.
C13_FirstEndWins ==
    (stack[1].q \in NestedQueues) => <>NestedPaired

\* ---- vocabulary of C14
\* every block of q that opens with START has an END marker in it or in a
\* later block of q, one that run() entered on that block would find
EveryStartHasEnd(q) ==
    \A k \in 1..Len(q) :
        Test(q[k]) => LeastEnd(HeadStripped(SubSeq(q, k, Len(q)))) > 0

\* a run() that found an END marker removes at least one block, and the head
\* of the blocks it hands to the recursive parse holds no START marker
PairingShrinks ==
    \A n \in RanFrames :
        /\ stack[n].ran = "calling" =>
              /\ stack[n].pending >= 1
              /\ ~Search(stack[n].handed[1], START)
        /\ stack[n].ran = "paired" => Len(stack[n].q) < Len(stack[n].pre)

\* C14: every run() that finds an END marker shrinks the pending queue and
\* hands over a head block without START marker; hence a document in which
\* every START-opening block has an END marker at or after it is rendered to
\* the end in finitely many steps of the host loop.
C14_PairingTerminates ==
    /\ []PairingShrinks
    /\ EveryStartHasEnd(stack[1].q) => <>(hpc = "done")

\* ---- vocabulary of C15
\* no line from i to the last line the first run() has been through starts
\* with three or more backticks
NoFenceLineSince(i) ==
    \A j \in i..Len(input) : Reached(j) => ~StartsWith(input[j], <<BT, BT, BT>>)

\* while the counter is set, the lines read since it was last written are
\* the input lines
ShieldedSoFar ==
    (pass = 1 /\ escaped > 0) =>
        \A i \in 1..Len(input) :
            (Reached(i) /\ NoFenceLineSince(i)) => lines[i] = input[i]

\* the loop body on a line that neither closes nor reopens the fence
ShieldedStep ==
    (/\ spc = "scan"
     /\ idx <= Len(lines)
     /\ escaped > 0
     /\ lines[idx] # Repeat(BT, escaped)
     /\ ~StartsWith(lines[idx], <<BT, BT, BT>>))
        => /\ lines' = lines
           /\ escaped' = escaped
           /\ reads' = reads
           /\ idx' = idx + 1
           /\ spc' = "scan"

\* C15: once the fence counter is n > 0, every following line is emitted
\* unchanged until a line of exactly n backticks or another line starting
\* with three or more backticks; when no such line follows, no line up to the
\* end of the document is modified, whatever SOURCE markers it holds.
C15_UnclosedFenceShields ==
    /\ []ShieldedSoFar
    /\ [][ShieldedStep]_vars

\* run() has returned a document whose fence is never closed, with its two
\* marker lines, whose files exist, left as they were
C15_Witness ==
    /\ pass = 1
    /\ spc = "done"
    /\ escaped = 3
    /\ input = <<Repeat(BT, 3) \o <<PYTHON>>, Marker(<<"f">>, 1, 2), TwoMarkers>>
    /\ fs.f.ok /\ fs.g.ok /\ fs.other.ok
    /\ lines = input
    /\ out1 = input
    /\ reads = 0

=============================================================================
